---- MODULE Spec2Model ----
(***************************************************************************)
(* Model of the mileage calculator: the batch script generateMileageTable  *)
(* (geocode cache, route cache, pair loop, cache flush) and the            *)
(* interactive tool (calculateMileage and its click handler).              *)
(*                                                                         *)
(* Strings that the code only stores and compares (addresses, status      *)
(* messages) are TLA+ strings.  Strings that the code builds or takes      *)
(* apart (location identifiers and pair keys, the text of the input box)   *)
(* are sequences of one-character strings, so that concatenation, split    *)
(* and trim are computed.  Distances are whole meters; a mileage with two  *)
(* decimals is an integer number of hundredths of a mile.                  *)
(***************************************************************************)
EXTENDS Integers, Sequences, FiniteSets, TLC

\* ------------------------------------------------------------------ bounds
MaxLocs == 3
MaxRuns == 2
MaxOps == 2
MaxInputLen == 4

\* ------------------------------------------------------- program constants
\* 1609.344 meters per mile, in millimeters
MetersPerMileMilli == 1609344

PLACEHOLDER_TOKEN == "YOUR_MAPBOX_TOKEN_HERE"

\* process.env.MAPBOX_TOKEN || "YOUR_MAPBOX_TOKEN_HERE" ("" is falsy, as is unset)
BatchToken(env) == IF env = "" THEN PLACEHOLDER_TOKEN ELSE env

EnvTokens == {"", "pk.real"}

\* The token of the interactive tool as shipped, and what an operator may
\* replace it with
UI_PLACEHOLDER_TOKEN == "YOUR_MAPBOX_ACCESS_TOKEN_HERE"

UITokens == {"", UI_PLACEHOLDER_TOKEN, "pk.real"}

\* The universe the location set is drawn from: identifier and address, in
\* the order of the object literal.  An identifier is any object key: two of
\* them contain the character the pair key is built with.  Two identifiers
\* share an address, as HOME does when HOME_ADDR is set to the address of
\* another entry.
LOCATION_ALIAS ==
  << [id |-> <<"A">>,           addr |-> "addr1"],
     [id |-> <<"B", "|", "A">>, addr |-> "addr2"],
     [id |-> <<"A", "|", "B">>, addr |-> "addr3"],
     [id |-> <<"B">>,           addr |-> "addr1"],
     [id |-> <<"C">>,           addr |-> "addr4"] >>

\* What the external services may answer.
Coords == { [lat |-> 1, lon |-> 1], [lat |-> 2, lon |-> 2] }
Meters == {0, 5000}

GeoResponses ==
  { [ok |-> FALSE, features |-> << >>], [ok |-> TRUE, features |-> << >>] }
  \cup { [ok |-> TRUE, features |-> <<c>>] : c \in Coords }

RouteResponses ==
  { [ok |-> FALSE, routes |-> << >>], [ok |-> TRUE, routes |-> << >>] }
  \cup { [ok |-> TRUE, routes |-> << [distance |-> m] >>] : m \in Meters }

\* --------------------------------------------------------------- variables
VARIABLES
  token,        \* MAPBOX_TOKEN of the batch script
  keys,         \* Object.keys(LOCATION_ALIAS): sequence of location entries
  geoFile,      \* geoCache.json    [exists, data]
  routeFile,    \* routeCache.json  [exists, data]
  outFile,      \* mileageTable.js  [exists, data]
  geoCache,     \* in-memory geocode cache: address -> coordinate
  routeCache,   \* in-memory route cache: pair key -> meters
  coords,       \* coords of the main script: identifier -> coordinate
  table,        \* table of the main script: pair key -> hundredths of a mile
  pc,           \* where the batch process is
  g,            \* index of the geocode loop (1-based)
  i, j,         \* indices of the pair loop (1-based)
  runs,         \* number of runs started
  geoFetched,   \* addresses fetch was called for in this run, in order
  routeFetched, \* pair keys fetch was called for in this run, in order
  calls,        \* index pairs getMeters was invoked for in this run, in order
  atStart,      \* the three files as they were when this run started
  \* ---- interactive tool
  uiToken,        \* MAPBOX_TOKEN of the interactive tool
  btnDisabled,    \* calculateBtn.disabled
  statusMsg,      \* statusDiv.textContent
  statusErr,      \* statusDiv has class "error"
  resultsHidden,  \* resultsDiv has class "hidden"
  rows,           \* the rows of legsTableBody
  totalText,      \* totalMilesEl.textContent: << >> or <<hundredths of a mile>>
  uiPc,           \* where calculateMileage is: idle, geocoding, routing
  ops,            \* number of calls of calculateMileage so far
  locations,      \* locations of the current operation: the trimmed, non-empty
                  \* lines of locationsInput.value, plus the round-trip stop
  geocoded,       \* index -> geocoding result, for the requests resolved so far
  inflight,       \* indices of the geocoding requests Promise.all is awaiting
  stale,          \* number of outstanding geocoding requests of abandoned
                  \* operations: nothing awaits their results any more
  routeInflight,  \* the routing request of the current operation is outstanding
  route,          \* route of the current operation: << >> or <<the route object>>
  opGeoFailed,    \* a geocoding request of the current operation has failed
  opRouteIssued   \* getRoute has called fetch in the current operation

batchVars == << token, keys, geoFile, routeFile, outFile, geoCache, routeCache,
                coords, table, pc, g, i, j, runs, geoFetched, routeFetched,
                calls, atStart >>

uiVars == << uiToken, btnDisabled, statusMsg,
             statusErr, resultsHidden, rows, totalText, uiPc, ops, locations,
             geocoded, inflight, stale, routeInflight, route, opGeoFailed,
             opRouteIssued >>

vars == << batchVars, uiVars >>

\* ------------------------------------------------------------------ helpers
Empty == [k \in {} |-> 0]

NoFile == [exists |-> FALSE, data |-> Empty]

loadCache(file) == IF file.exists THEN file.data ELSE Empty

saveCache(obj) == [exists |-> TRUE, data |-> obj]

\* `${A}|${B}`
PairKey(A, B) == A \o <<"|">> \o B

\* if (geoCache[address]): a stored coordinate object is always truthy
GeoHit(cache, addr) == addr \in DOMAIN cache

\* if (routeCache[pairKey]): a stored number is truthy unless it is 0
RouteHit(cache, key) == key \in DOMAIN cache /\ cache[key] # 0

\* parseFloat(metersToMiles(meters).toFixed(2)), in hundredths of a mile
MilesFixed2(m) == (m * 100000 + MetersPerMileMilli \div 2) \div MetersPerMileMilli

\* Faulty variant of TableAfter: only the A|B entry is written
TableAfterOneWay(t, A, B, miles) == (PairKey(A, B) :> miles) @@ t

\* table[`${A}|${B}`] = miles; table[`${B}|${A}`] = miles;
TableAfter(t, A, B, miles) ==
  (PairKey(B, A) :> miles) @@ ((PairKey(A, B) :> miles) @@ t)

\* Faulty variant of FirstJ: let j = i
FirstJSelf(a) == a

\* let j = i + 1
FirstJ(a) == a + 1

\* The position of the nested for loops once both loop conditions have been
\* evaluated: the next (i, j) whose body runs, or i > n when the loops are over.
RECURSIVE Settle(_, _, _)
Settle(a, b, n) ==
  IF a > n THEN <<a, b>>
  ELSE IF b <= n THEN <<a, b>>
  ELSE Settle(a + 1, FirstJ(a + 1), n)

N == Len(keys)

\* Ordered sub-sequences of LOCATION_ALIAS with at most MaxLocs entries
RECURSIVE SubSeqs(_)
SubSeqs(s) ==
  IF s = << >> THEN { << >> }
  ELSE LET rest == SubSeqs(Tail(s))
       IN rest \cup { <<Head(s)>> \o r : r \in rest }

LocationSets == { s \in SubSeqs(LOCATION_ALIAS) : Len(s) <= MaxLocs }

\* The batch script before its first run, with the given token and locations
BatchIdle(t, ks) ==
  /\ token = t
  /\ keys = ks
  /\ geoFile = NoFile /\ routeFile = NoFile /\ outFile = NoFile
  /\ geoCache = Empty /\ routeCache = Empty
  /\ coords = Empty /\ table = Empty
  /\ pc = "start" /\ g = 1 /\ i = 1 /\ j = 1
  /\ runs = 0
  /\ geoFetched = << >> /\ routeFetched = << >> /\ calls = << >>
  /\ atStart = [geo |-> NoFile, route |-> NoFile, out |-> NoFile]

\* The page once app.js has run: nothing clicked yet, the results section
\* hidden as calculateMileage leaves it when it starts
PageLoaded(t) ==
  /\ uiToken = t
  /\ btnDisabled = FALSE
  /\ statusMsg = "" /\ statusErr = FALSE
  /\ resultsHidden = TRUE
  /\ rows = << >> /\ totalText = << >>
  /\ uiPc = "idle" /\ ops = 0
  /\ locations = << >> /\ geocoded = Empty
  /\ inflight = {} /\ stale = 0 /\ routeInflight = FALSE
  /\ route = << >>
  /\ opGeoFailed = FALSE /\ opRouteIssued = FALSE

\* ----------------------------------------------------------------- batch
Init ==
  /\ \E e \in EnvTokens, ks \in LocationSets : BatchIdle(BatchToken(e), ks)
  /\ PageLoaded(UI_PLACEHOLDER_TOKEN)

\* node generateMileageTable.js: the caches are loaded, the main script starts
StartRun ==
  /\ pc \in {"start", "done", "failed"}
  /\ runs < MaxRuns
  /\ runs' = runs + 1
  /\ geoCache' = loadCache(geoFile)
  /\ routeCache' = loadCache(routeFile)
  /\ coords' = Empty /\ table' = Empty
  /\ g' = 1 /\ i' = 1 /\ j' = 1
  /\ geoFetched' = << >> /\ routeFetched' = << >> /\ calls' = << >>
  /\ atStart' = [geo |-> geoFile, route |-> routeFile, out |-> outFile]
  /\ pc' = "geocode"
  /\ UNCHANGED uiVars
  /\ UNCHANGED << token, keys, geoFile, routeFile, outFile >>

\* coords[key] = await geocode(addr), cache hit
GeocodeCached ==
  /\ pc = "geocode" /\ g <= N
  /\ GeoHit(geoCache, keys[g].addr)
  /\ coords' = (keys[g].id :> geoCache[keys[g].addr]) @@ coords
  /\ g' = g + 1
  /\ UNCHANGED uiVars
  /\ UNCHANGED << token, keys, geoFile, routeFile, outFile, geoCache,
                  routeCache, table, pc, i, j, runs, geoFetched, routeFetched,
                  calls, atStart >>

\* geocode(addr), cache miss: fetch(url) is called
GeocodeFetch ==
  /\ pc = "geocode" /\ g <= N
  /\ ~GeoHit(geoCache, keys[g].addr)
  /\ geoFetched' = Append(geoFetched, keys[g].addr)
  /\ pc' = "geocodeWait"
  /\ UNCHANGED uiVars
  /\ UNCHANGED << token, keys, geoFile, routeFile, outFile, geoCache,
                  routeCache, coords, table, g, i, j, runs, routeFetched,
                  calls, atStart >>

\* Faulty variant of GeocodeResp: the geocode cache is saved as soon as an
\* address is resolved
GeocodeRespFlush(rsp) ==
  /\ pc = "geocodeWait"
  /\ IF rsp.ok /\ Len(rsp.features) > 0
       THEN /\ geoCache' = (keys[g].addr :> rsp.features[1]) @@ geoCache
            /\ geoFile' = saveCache(geoCache')
            /\ coords' = (keys[g].id :> rsp.features[1]) @@ coords
            /\ g' = g + 1
            /\ pc' = "geocode"
       ELSE /\ pc' = "failed"
            /\ UNCHANGED << geoCache, geoFile, coords, g >>
  /\ UNCHANGED uiVars
  /\ UNCHANGED << token, keys, routeFile, outFile, routeCache, table,
                  i, j, runs, geoFetched, routeFetched, calls, atStart >>

\* the geocoding response arrives: the rest of geocode(), or the throw that
\* ends the process
GeocodeResp(rsp) ==
  /\ pc = "geocodeWait"
  /\ IF rsp.ok /\ Len(rsp.features) > 0
       THEN /\ geoCache' = (keys[g].addr :> rsp.features[1]) @@ geoCache
            /\ coords' = (keys[g].id :> rsp.features[1]) @@ coords
            /\ g' = g + 1
            /\ pc' = "geocode"
       ELSE /\ pc' = "failed"
            /\ UNCHANGED << geoCache, coords, g >>
  /\ UNCHANGED uiVars
  /\ UNCHANGED << token, keys, geoFile, routeFile, outFile, routeCache, table,
                  i, j, runs, geoFetched, routeFetched, calls, atStart >>

\* the geocode loop is over: const table = {}, and the pair loops are entered
EnterPairs ==
  /\ pc = "geocode" /\ g > N
  /\ table' = Empty
  /\ i' = Settle(1, FirstJ(1), N)[1]
  /\ j' = Settle(1, FirstJ(1), N)[2]
  /\ pc' = "pairs"
  /\ UNCHANGED uiVars
  /\ UNCHANGED << token, keys, geoFile, routeFile, outFile, geoCache,
                  routeCache, coords, g, runs, geoFetched, routeFetched,
                  calls, atStart >>

\* await getMeters(...), cache hit, and the rest of the loop body
RouteCached ==
  /\ pc = "pairs" /\ i <= N
  /\ RouteHit(routeCache, PairKey(keys[i].id, keys[j].id))
  /\ calls' = Append(calls, <<i, j>>)
  /\ table' = TableAfter(table, keys[i].id, keys[j].id,
                 MilesFixed2(routeCache[PairKey(keys[i].id, keys[j].id)]))
  /\ i' = Settle(i, j + 1, N)[1]
  /\ j' = Settle(i, j + 1, N)[2]
  /\ UNCHANGED uiVars
  /\ UNCHANGED << token, keys, geoFile, routeFile, outFile, geoCache,
                  routeCache, coords, pc, g, runs, geoFetched, routeFetched,
                  atStart >>

\* getMeters(...), cache miss: fetch(url) is called
RouteFetch ==
  /\ pc = "pairs" /\ i <= N
  /\ ~RouteHit(routeCache, PairKey(keys[i].id, keys[j].id))
  /\ calls' = Append(calls, <<i, j>>)
  /\ routeFetched' = Append(routeFetched, PairKey(keys[i].id, keys[j].id))
  /\ pc' = "routeWait"
  /\ UNCHANGED uiVars
  /\ UNCHANGED << token, keys, geoFile, routeFile, outFile, geoCache,
                  routeCache, coords, table, g, i, j, runs, geoFetched,
                  atStart >>

\* the routing response arrives: the rest of getMeters() and of the loop body,
\* or the throw that ends the process
RouteResp(rsp) ==
  /\ pc = "routeWait"
  /\ IF rsp.ok /\ Len(rsp.routes) > 0
       THEN /\ routeCache' = (PairKey(keys[i].id, keys[j].id)
                                :> rsp.routes[1].distance) @@ routeCache
            /\ table' = TableAfter(table, keys[i].id, keys[j].id,
                           MilesFixed2(rsp.routes[1].distance))
            /\ i' = Settle(i, j + 1, N)[1]
            /\ j' = Settle(i, j + 1, N)[2]
            /\ pc' = "pairs"
       ELSE /\ pc' = "failed"
            /\ UNCHANGED << routeCache, table, i, j >>
  /\ UNCHANGED uiVars
  /\ UNCHANGED << token, keys, geoFile, routeFile, outFile, geoCache, coords,
                  g, runs, geoFetched, routeFetched, calls, atStart >>

\* the pair loops are over: both caches are saved, the table file is written
Finish ==
  /\ pc = "pairs" /\ i > N
  /\ geoFile' = saveCache(geoCache)
  /\ routeFile' = saveCache(routeCache)
  /\ outFile' = [exists |-> TRUE, data |-> table]
  /\ pc' = "done"
  /\ UNCHANGED uiVars
  /\ UNCHANGED << token, keys, geoCache, routeCache, coords, table, g, i, j,
                  runs, geoFetched, routeFetched, calls, atStart >>

Next ==
  \/ StartRun
  \/ GeocodeCached
  \/ GeocodeFetch
  \/ \E rsp \in GeoResponses : GeocodeResp(rsp)
  \/ EnterPairs
  \/ RouteCached
  \/ RouteFetch
  \/ \E rsp \in RouteResponses : RouteResp(rsp)
  \/ Finish

Spec == Init /\ [][Next]_vars

\* ------------------------------------------------------- interactive tool
\* What the user may have typed into the locations box
InputChars == {"a", " ", "\n"}

Inputs == UNION { [1..k -> InputChars] : k \in 0..MaxInputLen }

\* What the geocoding service may answer to the interactive tool
GeoUIResponses ==
  { [ok |-> FALSE, features |-> << >>], [ok |-> TRUE, features |-> << >>],
    [ok |-> TRUE, features |-> << [lat |-> 1, lon |-> 1] >>] }

\* What the directions service may answer for a route over k coordinates:
\* legs may be missing, empty, or hold one leg per consecutive pair
RouteMeters == {3000, 5000}
LegMeters == {1000, 2000}

LegsFor(k) ==
  { [present |-> FALSE, list |-> << >>], [present |-> TRUE, list |-> << >>] }
  \cup { [present |-> TRUE, list |-> l] :
           l \in [1..(k - 1) -> { [distance |-> d] : d \in LegMeters }] }

RouteUIResponses(k) ==
  { [ok |-> FALSE, routes |-> << >>], [ok |-> TRUE, routes |-> << >>] }
  \cup { [ok |-> TRUE, routes |-> << [distance |-> m, legs |-> l] >>] :
           m \in RouteMeters, l \in LegsFor(k) }

\* formatMiles(metersToMiles(meters)): the two decimals, in hundredths of a mile
formatMiles(m) == (m * 100000 + MetersPerMileMilli \div 2) \div MetersPerMileMilli

\* text.split("\n")
RECURSIVE SplitLines(_)
SplitLines(t) ==
  IF \A k \in 1..Len(t) : t[k] # "\n" THEN << t >>
  ELSE LET k == CHOOSE x \in 1..Len(t) :
                  t[x] = "\n" /\ \A y \in 1..(x - 1) : t[y] # "\n"
       IN << SubSeq(t, 1, k - 1) >> \o SplitLines(SubSeq(t, k + 1, Len(t)))

RECURSIVE TrimStart(_)
TrimStart(l) == IF l # << >> /\ Head(l) = " " THEN TrimStart(Tail(l)) ELSE l

RECURSIVE TrimEnd(_)
TrimEnd(l) ==
  IF l # << >> /\ l[Len(l)] = " " THEN TrimEnd(SubSeq(l, 1, Len(l) - 1)) ELSE l

\* l.trim()
Trim(l) == TrimEnd(TrimStart(l))

\* rawLines.map((l) => l.trim()).filter((l) => l.length > 0)
ParseLocations(text) ==
  LET rawLines == SplitLines(text)
      trimmed  == [k \in 1..Len(rawLines) |-> Trim(rawLines[k])]
  IN SelectSeq(trimmed, LAMBDA l : Len(l) > 0)

\* The locations of every text of the box, computed once
Parsed == [t \in Inputs |-> ParseLocations(t)]

\* Faulty variant of TooFew: if (locations.length < 1)
TooFewBelowOne(locs) == Len(locs) < 1

\* if (locations.length < 2)
TooFew(locs) == Len(locs) < 2

\* if (!MAPBOX_TOKEN || MAPBOX_TOKEN === "YOUR_MAPBOX_ACCESS_TOKEN_HERE")
BadToken(t) == t = "" \/ t = UI_PLACEHOLDER_TOKEN

\* if (roundTripCheckbox.checked) locations = [...locations, locations[0]]
WithRoundTrip(locs, rt) == IF rt THEN Append(locs, locs[1]) ELSE locs

\* geocodeAddress resolves: resp.ok and at least one feature
GeoOk(rsp) == rsp.ok /\ Len(rsp.features) > 0

\* the message geocodeAddress throws
GeoErr(rsp) == IF ~rsp.ok THEN "Geocoding failed" ELSE "No match found"

\* getRoute resolves: resp.ok and at least one route
RouteOk(rsp) == rsp.ok /\ Len(rsp.routes) > 0

\* the message getRoute throws
RouteErr(rsp) ==
  IF ~rsp.ok THEN "Directions failed" ELSE "No route found for given locations"

\* Faulty variant of FallbackRows: a single row spanning the whole route
FallbackRowsSingle(r, geo) ==
  << [n |-> 1, from |-> geo[1].address,
      to |-> geo[Cardinality(DOMAIN geo)].address,
      miles |-> formatMiles(r.distance)] >>

\* legs.length === 0: one row per consecutive pair, each with the whole distance
FallbackRows(r, geo) ==
  [k \in 1..(Cardinality(DOMAIN geo) - 1) |->
     [n |-> k, from |-> geo[k].address, to |-> geo[k + 1].address,
      miles |-> formatMiles(r.distance)]]

\* const legs = route.legs || []
LegsOf(r) == IF r.legs.present THEN r.legs.list ELSE << >>

\* the rows appended to legsTableBody
LegRows(r, geo) ==
  IF Len(LegsOf(r)) = 0 THEN FallbackRows(r, geo)
  ELSE [idx \in 1..Len(LegsOf(r)) |->
          [n |-> idx, from |-> geo[idx].address, to |-> geo[idx + 1].address,
           miles |-> formatMiles(LegsOf(r)[idx].distance)]]

\* Faulty variant of CatchFinally: the finally block is missing
CatchOnly(msg) ==
  /\ statusMsg' = msg /\ statusErr' = TRUE
  /\ uiPc' = "idle"
  /\ UNCHANGED btnDisabled

\* catch (err) { setStatus(err.message, true) } finally { calculateBtn.disabled = false }
CatchFinally(msg) ==
  /\ statusMsg' = msg /\ statusErr' = TRUE
  /\ btnDisabled' = FALSE
  /\ uiPc' = "idle"

\* The click handler: calculateMileage() up to its first await, or to its return.
\* A disabled button dispatches no click.
Click(text, rt) ==
  /\ ~btnDisabled
  /\ ops < MaxOps
  /\ ops' = ops + 1
  /\ resultsHidden' = TRUE /\ rows' = << >> /\ totalText' = << >>
  /\ route' = << >> /\ geocoded' = Empty
  /\ opGeoFailed' = FALSE /\ opRouteIssued' = FALSE
  /\ IF TooFew(Parsed[text])
       THEN /\ statusMsg' = "Enter at least two locations." /\ statusErr' = TRUE
            /\ locations' = Parsed[text]
            /\ UNCHANGED << btnDisabled, uiPc, inflight >>
       ELSE IF BadToken(uiToken)
       THEN /\ statusMsg' = "You need to set your Mapbox token in app.js before this will work."
            /\ statusErr' = TRUE
            /\ locations' = Parsed[text]
            /\ UNCHANGED << btnDisabled, uiPc, inflight >>
       ELSE /\ locations' = WithRoundTrip(Parsed[text], rt)
            /\ statusMsg' = "Geocoding locations..." /\ statusErr' = FALSE
            /\ btnDisabled' = TRUE
            /\ inflight' = 1..Len(locations')
            /\ uiPc' = "geocoding"
  /\ UNCHANGED << uiToken, stale, routeInflight >>
  /\ UNCHANGED batchVars

\* One geocodeAddress of the awaited Promise.all resolves; with the last one
\* Promise.all resolves and getRoute calls fetch
GeoResolved(k, rsp) ==
  /\ geocoded' = (k :> [address |-> locations[k],
                        lon |-> rsp.features[1].lon,
                        lat |-> rsp.features[1].lat]) @@ geocoded
  /\ IF DOMAIN geocoded' = 1..Len(locations)
       THEN /\ statusMsg' = "Requesting route and calculating distance..."
            /\ statusErr' = FALSE
            /\ routeInflight' = TRUE
            /\ opRouteIssued' = TRUE
            /\ uiPc' = "routing"
       ELSE UNCHANGED << statusMsg, statusErr, routeInflight, opRouteIssued, uiPc >>
  /\ inflight' = inflight \ {k}
  /\ UNCHANGED << btnDisabled, stale, opGeoFailed >>

\* Faulty variant of GeoRejected: the failure is recorded and the operation
\* goes on as if the request had resolved (no fail-fast)
GeoRejectedGoesOn(k, rsp) ==
  /\ opGeoFailed' = TRUE
  /\ inflight' = inflight \ {k}
  /\ geocoded' = (k :> [address |-> locations[k], lon |-> 0, lat |-> 0]) @@ geocoded
  /\ IF DOMAIN geocoded' = 1..Len(locations)
       THEN /\ statusMsg' = "Requesting route and calculating distance..."
            /\ statusErr' = FALSE
            /\ routeInflight' = TRUE
            /\ opRouteIssued' = TRUE
            /\ uiPc' = "routing"
       ELSE UNCHANGED << statusMsg, statusErr, routeInflight, opRouteIssued, uiPc >>
  /\ UNCHANGED << btnDisabled, stale >>

\* One geocodeAddress of the awaited Promise.all throws: Promise.all rejects at
\* once, calculateMileage runs its catch and finally, and the requests still
\* outstanding are left to finish unawaited
GeoRejected(k, rsp) ==
  /\ opGeoFailed' = TRUE
  /\ inflight' = {}
  /\ stale' = stale + Cardinality(inflight \ {k})
  /\ CatchFinally(GeoErr(rsp))
  /\ UNCHANGED << geocoded, routeInflight, opRouteIssued >>

\* The response to an awaited geocoding request arrives
GeoArrive(k, rsp) ==
  /\ k \in inflight
  /\ IF GeoOk(rsp) THEN GeoResolved(k, rsp) ELSE GeoRejected(k, rsp)
  /\ UNCHANGED << uiToken, resultsHidden, rows, totalText, ops, locations, route >>
  /\ UNCHANGED batchVars

\* The response to a geocoding request of an abandoned operation arrives:
\* Promise.all has already rejected, the result is dropped
StaleArrive ==
  /\ stale > 0
  /\ stale' = stale - 1
  /\ UNCHANGED << uiToken, btnDisabled, statusMsg, statusErr, resultsHidden, rows,
                  totalText, uiPc, ops, locations, geocoded, inflight,
                  routeInflight, route, opGeoFailed, opRouteIssued >>
  /\ UNCHANGED batchVars

\* The routing response arrives: the rest of calculateMileage
RouteArrive(rsp) ==
  /\ routeInflight
  /\ routeInflight' = FALSE
  /\ IF RouteOk(rsp)
       THEN /\ route' = << rsp.routes[1] >>
            /\ rows' = LegRows(rsp.routes[1], geocoded)
            /\ totalText' = << formatMiles(rsp.routes[1].distance) >>
            /\ resultsHidden' = FALSE
            /\ statusMsg' = "Done." /\ statusErr' = FALSE
            /\ btnDisabled' = FALSE
            /\ uiPc' = "idle"
       ELSE /\ CatchFinally(RouteErr(rsp))
            /\ UNCHANGED << route, rows, totalText, resultsHidden >>
  /\ UNCHANGED << uiToken, ops, locations, geocoded,
                  inflight, stale, opGeoFailed, opRouteIssued >>
  /\ UNCHANGED batchVars

UIInit ==
  /\ BatchIdle(PLACEHOLDER_TOKEN, << >>)
  /\ \E t \in UITokens : PageLoaded(t)

UINext ==
  \/ \E text \in Inputs, rt \in BOOLEAN : Click(text, rt)
  \/ \E k \in inflight, rsp \in GeoUIResponses : GeoArrive(k, rsp)
  \/ StaleArrive
  \/ \E rsp \in RouteUIResponses(Len(locations)) : RouteArrive(rsp)

UISpec == UIInit /\ [][UINext]_vars

\* Every request the tool has issued is eventually answered or fails: the
\* transport settles each fetch.
UIFairSpec ==
  /\ UISpec
  /\ WF_vars(\E k \in inflight, rsp \in GeoUIResponses : GeoArrive(k, rsp))
  /\ WF_vars(StaleArrive)
  /\ WF_vars(\E rsp \in RouteUIResponses(Len(locations)) : RouteArrive(rsp))

\* ------------------------------------------------------------- properties
\* An identifier that does not contain the separator of the pair key
SepFree(id) == \A k \in 1..Len(id) : id[k] # "|"

SepFreeKeys == \A k \in 1..N : SepFree(keys[k].id)

\* The index pairs (a, b) with a < b, in ascending order, starting at (a, b)
RECURSIVE AscendingFrom(_, _, _)
AscendingFrom(a, b, n) ==
  IF a >= n THEN << >>
  ELSE IF b > n THEN AscendingFrom(a + 1, a + 2, n)
  ELSE << <<a, b>> >> \o AscendingFrom(a, b + 1, n)

AscendingPairs(n) == AscendingFrom(1, 2, n)

Occurrences(s, x) == Cardinality({ k \in 1..Len(s) : s[k] = x })

\* This run found, when it started, both cache files and the table file
\* present, with an entry for every address and for every pair key A|B, A before B
WarmStart ==
  /\ atStart.geo.exists /\ atStart.route.exists /\ atStart.out.exists
  /\ \A k \in 1..N : keys[k].addr \in DOMAIN atStart.geo.data
  /\ \A a \in 1..N : \A b \in (a + 1)..N :
       PairKey(keys[a].id, keys[b].id) \in DOMAIN atStart.route.data

\* C1: a run that starts with both caches warm issues no network request
\* (neither geocode() nor getMeters() reaches fetch) and writes the same table
\* as the run before it.
C1_WarmRunNoNetwork ==
  (SepFreeKeys /\ WarmStart) =>
     /\ geoFetched = << >>
     /\ routeFetched = << >>
     /\ (pc = "done" => outFile = atStart.out)

\* C2 (as stated): at every point of the main loop, for every two location
\* identifiers A and B, the table has an entry under A|B iff it has one under
\* B|A, and the two are equal.
C2_TableSymmetric ==
  \A a \in 1..N : \A b \in 1..N :
    LET ab == PairKey(keys[a].id, keys[b].id)
        ba == PairKey(keys[b].id, keys[a].id)
    IN /\ (ab \in DOMAIN table) <=> (ba \in DOMAIN table)
       /\ (ab \in DOMAIN table) => table[ab] = table[ba]

\* C2 (amended): the same, for location sets none of whose identifiers contains
\* the separator "|".
C2_TableSymmetricSepFree == SepFreeKeys => C2_TableSymmetric

\* C2 witness: the script is suspended in getMeters for the last of three
\* pairs, with the first two pairs in the table.
C2_Witness ==
  /\ SepFreeKeys /\ N = 3
  /\ pc = "routeWait" /\ i = 2 /\ j = 3
  /\ Cardinality(DOMAIN table) = 4

C4_BadTokenNoRequest ==
  /\ BadToken(uiToken) =>
        (inflight = {} /\ stale = 0 /\ ~routeInflight /\ ~opRouteIssued)
  /\ token = PLACEHOLDER_TOKEN =>
        (geoFetched = << >> /\ routeFetched = << >>)

\* C7: when a geocode or route lookup of a run fails, the run ends with no
\* retry of the failed lookup and nothing written: the two cache files and the
\* output file are what they were when the run started (and no file is written
\* at any earlier point of a run either).
C7_FailureWritesNothing ==
  /\ pc \in {"geocode", "geocodeWait", "pairs", "routeWait", "failed"} =>
        /\ geoFile = atStart.geo
        /\ routeFile = atStart.route
        /\ outFile = atStart.out
  /\ pc = "failed" =>
        IF g <= N
          THEN /\ Occurrences(geoFetched, keys[g].addr) = 1
               /\ geoFetched[Len(geoFetched)] = keys[g].addr
          ELSE /\ Occurrences(routeFetched, PairKey(keys[i].id, keys[j].id)) = 1
               /\ routeFetched[Len(routeFetched)] = PairKey(keys[i].id, keys[j].id)

\* C7 witness: a second run has failed on a route lookup after it resolved
\* lookups that are in memory and not on disk.
C7_Witness ==
  /\ pc = "failed" /\ runs = 2 /\ g > N
  /\ geoCache # loadCache(geoFile)
  /\ routeCache # loadCache(routeFile)

\* C10: a key that holds a value in a cache file keeps exactly that value;
\* getMeters() only writes a key that is absent, and calls fetch only for a key
\* that is absent.
C10_CachedNeverRewritten ==
  [][ SepFreeKeys =>
        /\ \A k \in DOMAIN geoFile.data :
             k \in DOMAIN geoFile'.data /\ geoFile'.data[k] = geoFile.data[k]
        /\ \A k \in DOMAIN routeFile.data :
             k \in DOMAIN routeFile'.data /\ routeFile'.data[k] = routeFile.data[k]
        /\ \A k \in DOMAIN routeCache :
             (pc' # "geocode" /\ k \in DOMAIN routeCache') => routeCache'[k] = routeCache[k]
        /\ (routeFetched' # routeFetched /\ routeFetched' # << >>) =>
             routeFetched'[Len(routeFetched')] \notin DOMAIN routeCache ]_vars

\* C5: a click with fewer than two addresses (after trimming and dropping
\* empty lines) is rejected with an error status, issues no geocoding and no
\* routing request, and leaves the button enabled and the results hidden,
\* whatever the token and the round-trip option.
C5_TooFewRejected ==
  (ops > 0 /\ Len(locations) < 2) =>
     /\ statusErr /\ statusMsg = "Enter at least two locations."
     /\ inflight = {} /\ ~routeInflight /\ ~opRouteIssued /\ geocoded = Empty
     /\ ~btnDisabled
     /\ resultsHidden /\ rows = << >> /\ totalText = << >>
     /\ uiPc = "idle"

\* C5 witness: one address was entered, with a valid token.
C5_Witness ==
  /\ ops > 0 /\ Len(locations) = 1
  /\ uiToken = "pk.real"
  /\ statusErr

C8_RouteAfterAllGeocoded ==
  /\ uiPc = "geocoding" => inflight \cup DOMAIN geocoded = 1..Len(locations)
  /\ opRouteIssued =>
        /\ inflight = {}
        /\ DOMAIN geocoded = 1..Len(locations)
        /\ ~opGeoFailed
  /\ opGeoFailed =>
        /\ ~opRouteIssued /\ ~routeInflight
        /\ resultsHidden /\ rows = << >> /\ totalText = << >>

\* C8 witness: one request succeeded, the next failed, a third is still out.
C8_Witness ==
  /\ opGeoFailed /\ stale > 0
  /\ DOMAIN geocoded # {}
  /\ uiPc = "idle"

\* C9 (as stated): no operation is in flight while requests of an earlier
\* operation are outstanding.
C9_NoOverlapWithOutstanding == ~(uiPc # "idle" /\ stale > 0)

\* C9 (amended): the button is disabled exactly while an operation awaits its
\* requests (from its first request until it completes or is abandoned on its
\* first failure); an operation starts only when none is awaiting; and a
\* disabled button is eventually enabled again.  Requests of an abandoned
\* operation may still be outstanding meanwhile.
C9_DisabledWhileAwaiting ==
  /\ [](btnDisabled <=> uiPc # "idle")
  /\ [](uiPc = "geocoding" => inflight # {})
  /\ [](uiPc = "routing" <=> routeInflight)
  /\ [][ops' # ops => (~btnDisabled /\ uiPc = "idle")]_vars
  /\ (btnDisabled ~> ~btnDisabled)

\* C9 witness: a second operation awaits its route while a request of the
\* first, abandoned, operation is still outstanding.
C9_Witness ==
  /\ ops = 2 /\ uiPc = "routing" /\ btnDisabled
  /\ stale > 0

====
